---- MODULE Spec2Model ----
(***************************************************************************)
(* Leave-request approval workflow: the rule engine of                     *)
(* LeaveRequestsController (create / setStatus / cancel / permanent        *)
(* delete) over the LeaveRequests and Employees tables.                    *)
(*                                                                         *)
(* Dates are calendar days, written as integers (day numbers); the DTO     *)
(* carries ISO calendar dates, so every DateTime is a midnight.            *)
(***************************************************************************)
EXTENDS Integers, FiniteSets, Sequences, TLC

(* ------------------------------------------------------------------ *)
(* Bounds                                                               *)
(* ------------------------------------------------------------------ *)

\* Number of times a UserProvider is mounted over the same localStorage.
MaxMounts == 8

\* Number of api.post calls the form makes.
MaxPosts == 2

\* Number of rows the table receives before two POSTs arrive together.
MaxSetupRows == 1

\* Number of rows the LeaveRequests table ever receives (ids 1..MaxId).
MaxId == 2

\* The value DateTime.Today has during the run.
FirstDay == 1

(* ------------------------------------------------------------------ *)
(* Program constants                                                    *)
(* ------------------------------------------------------------------ *)

\* "Requests exceeding 15 days are auto-rejected"
AutoRejectDays == 15

\* enum LeaveStatus { Pending, Approved, Rejected }
LeaveStatus == <<"Pending", "Approved", "Rejected">>

\* enum Role { Employee, Manager }
Role == {"Employee", "Manager"}

\* SeedData.Initialize: Alex Employee gets id 1, Morgan Manager id 2.
Employees ==
    { [id |-> 1, role |-> "Employee"],
      [id |-> 2, role |-> "Manager"] }

(* ------------------------------------------------------------------ *)
(* Inputs                                                               *)
(* ------------------------------------------------------------------ *)

\* Caller-supplied employee / manager ids: the two seeded ones and an unknown one.
ActorIds == {1, 2, 3}

\* The optional query parameter of GET /api/leaverequests (int? employeeId):
\* absent, or one of the caller-supplied ids.
NoEmployeeId == [hasValue |-> FALSE, value |-> 0]
OptionalIds == {NoEmployeeId} \cup {[hasValue |-> TRUE, value |-> a] : a \in ActorIds}

\* Request ids a caller may name: every id the table can hold.
RequestIds == 1..MaxId

\* The (startDate, endDate) pairs a caller may send on day t:
\*   a single day, a reversed range, a single day in the past,
\*   a range of two days that starts in the past,
\*   a range of exactly AutoRejectDays days, a range of AutoRejectDays + 1
\*   days that starts on its last day, and a range of AutoRejectDays + 2 days
\*   that starts after both end.
DateRanges(t) ==
    { <<t, t>>, <<t + 1, t>>, <<t - 1, t - 1>>,
      <<t - 1, t>>,
      <<t, t + AutoRejectDays - 1>>,
      <<t + AutoRejectDays - 1, t + 2 * AutoRejectDays - 1>>,
      <<t + 2 * AutoRejectDays, t + 3 * AutoRejectDays + 1>> }

\* Request bodies of PUT /api/leaverequests/{id}.
StatusStrings == {"Approved", "Rejected", "Pending", "approved", "Cancelled"}

Reasons == {"family vacation"}

(* ------------------------------------------------------------------ *)
(* State                                                                *)
(* ------------------------------------------------------------------ *)

VARIABLES
    requests,   \* the LeaveRequests table: a set of rows
    nextId,     \* the next id the table assigns
    today,      \* DateTime.Today
    last,       \* the last call: its operation, its response, the row it touched
    listed,     \* the list the last call returned (empty when it returned none)
    creates,    \* the POSTs in flight: where each one is inside CreateLeaveRequest
    form,              \* CreateRequestForm: useState form
    validationErrors,  \* CreateRequestForm: useState validationErrors
    submitting,        \* CreateRequestForm: useState submitting
    error,             \* the parent's error, set through the setError prop
    posts,             \* number of api.post calls made
    created,           \* number of onCreated calls made
    tz,                \* the browser's offset from UTC, in hours
    user,              \* UserProvider: useState user, <<>> for null
    isLoading,         \* UserProvider: useState isLoading
    saved,             \* localStorage item 'loggedInUser'
    effectPending,     \* UserProvider: the mount effect has not run yet
    mounts             \* number of UserProviders mounted so far

formVars == <<form, validationErrors, submitting, error, posts, created, tz>>

userVars == <<user, isLoading, saved, effectPending, mounts>>

serverVars == <<requests, nextId, today, listed, creates>>

vars == <<requests, nextId, today, last, listed, creates, formVars, userVars>>

\* What a controller action that runs from its first line to its last
\* without another one in between leaves alone.
otherVars == <<creates, formVars, userVars>>

\* What a call leaves behind: result is the response, id the row the call
\* created, changed or removed (0 when it touched none).
Call(op, result, id) == [op |-> op, result |-> result, id |-> id]

NoCall == Call("none", "none", 0)

(* ------------------------------------------------------------------ *)
(* Lookups                                                              *)
(* ------------------------------------------------------------------ *)

\* _context.Employees.FindAsync(id) != null
EmployeeExists(id) == \E e \in Employees : e.id = id

\* Mutant: the role is not looked at.
IsManager_AnyEmployee(id) == \E e \in Employees : e.id = id

\* manager != null && manager.Role == Role.Manager
IsManager(id) == \E e \in Employees : e.id = id /\ e.role = "Manager"

\* _context.LeaveRequests.FindAsync(id) != null
RequestExists(id) == \E lr \in requests : lr.id = id

\* _context.LeaveRequests.FindAsync(id)
FindRequest(id) == CHOOSE lr \in requests : lr.id = id

\* The POSTs whose interleaving is followed.
Procs == {1, 2}

\* A POST that has not reached the controller.
Idle == [pc |-> "idle", employeeId |-> 0, startDate |-> 0, endDate |-> 0,
         result |-> "none", id |-> 0]

\* form.startDate and form.endDate hold '' or an ISO calendar date: the empty
\* sequence, or the one-element sequence of a day number.
NoDate == <<>>

IsoDate(day) == <<day>>

\* error: string | null
NoError == "null"

\* A text is the sequence of its characters.
NoText == <<>>

\* useState<CreateLeaveRequest>({ employeeId, startDate: '', endDate: '', reason: '' })
EmptyForm(employeeId) ==
    [employeeId |-> employeeId, startDate |-> NoDate, endDate |-> NoDate,
     reason |-> NoText]

\* useState<Record<string, string>>({})
NoErrors == [field \in {} |-> ""]

\* Offsets of the browser's local time from UTC, in hours.
TimeZones == {-5, 0, 2}

InitServer ==
    /\ creates = [p \in Procs |-> Idle]
    /\ requests = {}
    /\ nextId = 1
    /\ today = FirstDay
    /\ last = NoCall
    /\ listed = <<>>

\* The form as CreateRequestForm mounts it.
InitBrowser(employeeId, zone) ==
    /\ form = EmptyForm(employeeId)
    /\ validationErrors = NoErrors
    /\ submitting = FALSE
    /\ error = NoError
    /\ posts = 0
    /\ created = 0
    /\ tz = zone

\* useState<Employee | null>(null): <<>> for null, <<employee>> otherwise.
NoUser == <<>>

\* localStorage.getItem('loggedInUser') === null
NoItem == [present |-> FALSE, text |-> <<>>]

\* A stored item; its text is a sequence of tokens.
Item(text) == [present |-> TRUE, text |-> text]

\* UserProvider as it renders first, over what localStorage holds.
InitProvider(item) ==
    /\ user = NoUser
    /\ isLoading = TRUE
    /\ saved = item
    /\ effectPending = TRUE
    /\ mounts = 1

Init == InitServer /\ InitBrowser(1, 0) /\ InitProvider(NoItem)

(* ------------------------------------------------------------------ *)
(* Enum.TryParse<LeaveStatus>(statusString, ignoreCase: true, out s)    *)
(* ------------------------------------------------------------------ *)

\* Lower-casing, on the strings the model sends or compares.
ToLower(s) ==
    CASE s = "Pending"   -> "pending"
      [] s = "Approved"  -> "approved"
      [] s = "Rejected"  -> "rejected"
      [] s = "Cancelled" -> "cancelled"
      [] OTHER           -> s

\* A string of digits is read as the enum's underlying value.
IsNumeric(s) == s \in {"0", "1", "2"}

NumericValue(s) ==
    CASE s = "0" -> 0
      [] s = "1" -> 1
      [] s = "2" -> 2
      [] OTHER   -> 0

\* [ok, status]: ok is TryParse's return value, status its out parameter.
TryParseStatus(statusString) ==
    IF IsNumeric(statusString)
    THEN [ok |-> TRUE, status |-> LeaveStatus[NumericValue(statusString) + 1]]
    ELSE IF \E i \in DOMAIN LeaveStatus : ToLower(LeaveStatus[i]) = ToLower(statusString)
         THEN [ok |-> TRUE,
               status |-> LeaveStatus[CHOOSE i \in DOMAIN LeaveStatus :
                                          ToLower(LeaveStatus[i]) = ToLower(statusString)]]
         ELSE [ok |-> FALSE, status |-> LeaveStatus[1]]

(* ------------------------------------------------------------------ *)
(* POST /api/leaverequests                                              *)
(* ------------------------------------------------------------------ *)

\* Mutant: the comparison is strict.
InvalidRange_Strict(startDate, endDate) == startDate > endDate

\* Mutant: the comparison is off by one day.
InvalidRange_OffByOne(startDate, endDate) == startDate + 1 >= endDate

\* dto.StartDate >= dto.EndDate
InvalidRange(startDate, endDate) == startDate >= endDate

\* Mutant: today counts as past.
PastDate_Inclusive(startDate, t) == startDate <= t

\* dto.StartDate < DateTime.Today
PastDate(startDate, t) == startDate < t

\* (dto.EndDate - dto.StartDate).TotalDays + 1
Duration(startDate, endDate) == (endDate - startDate) + 1

\* Mutant: the status of the stored request is not looked at.
Overlap_AnyStatus(employeeId, startDate, endDate) ==
    \E lr \in requests :
        /\ lr.employeeId = employeeId
        /\ lr.startDate <= endDate
        /\ lr.endDate >= startDate

\* _context.LeaveRequests.AnyAsync(lr => ...)
Overlap(employeeId, startDate, endDate) ==
    \E lr \in requests :
        /\ lr.employeeId = employeeId
        /\ lr.status = "Approved"
        /\ lr.startDate <= endDate
        /\ lr.endDate >= startDate

\* Mutant: a short request is approved on creation.
InitialStatus_AutoApprove(duration) ==
    IF duration > AutoRejectDays THEN "Rejected" ELSE "Approved"

\* Mutant: a request of exactly AutoRejectDays days is rejected too.
InitialStatus_AtLeast(duration) ==
    IF duration >= AutoRejectDays THEN "Rejected" ELSE "Pending"

\* duration > 15 ? LeaveStatus.Rejected : LeaveStatus.Pending
InitialStatus(duration) ==
    IF duration > AutoRejectDays THEN "Rejected" ELSE "Pending"

\* Mutant: the dates are tested before the employee is looked up.
CreateResult_DatesFirst(employeeId, startDate, endDate) ==
    IF InvalidRange(startDate, endDate) THEN "InvalidRange"
    ELSE IF PastDate(startDate, today) THEN "PastDate"
    ELSE IF ~EmployeeExists(employeeId) THEN "NotFound"
    ELSE IF Overlap(employeeId, startDate, endDate) THEN "OverlapConflict"
    ELSE "Created"

\* The response of CreateLeaveRequest, in the order the code tests:
\*   NotFound("Employee not found")                                  NotFound
\*   BadRequest("End date must be after start date")                 InvalidRange
\*   BadRequest("Cannot create requests for past dates")             PastDate
\*   BadRequest("Overlapping approved leave exists for this period") OverlapConflict
\*   CreatedAtAction(...)                                            Created
CreateResult(employeeId, startDate, endDate) ==
    IF ~EmployeeExists(employeeId) THEN "NotFound"
    ELSE IF InvalidRange(startDate, endDate) THEN "InvalidRange"
    ELSE IF PastDate(startDate, today) THEN "PastDate"
    ELSE IF Overlap(employeeId, startDate, endDate) THEN "OverlapConflict"
    ELSE "Created"

\* Mutant: the request is stored as Approved.
NewRequest_AsApproved(id, employeeId, startDate, endDate, reason) ==
    [id |-> id, employeeId |-> employeeId, startDate |-> startDate,
     endDate |-> endDate, reason |-> reason, status |-> "Approved"]

\* new LeaveRequest { ... }, with the id the table assigns on Add
NewRequest(id, employeeId, startDate, endDate, reason) ==
    [id |-> id, employeeId |-> employeeId, startDate |-> startDate,
     endDate |-> endDate, reason |-> reason,
     status |-> InitialStatus(Duration(startDate, endDate))]

\* The table after the call: Add + SaveChangesAsync on success, untouched otherwise.
AfterCreate(employeeId, startDate, endDate, reason) ==
    IF CreateResult(employeeId, startDate, endDate) = "Created"
    THEN requests \cup {NewRequest(nextId, employeeId, startDate, endDate, reason)}
    ELSE requests

CreateLeaveRequest ==
    \E employeeId \in ActorIds, range \in DateRanges(today), reason \in Reasons :
        LET startDate == range[1]
            endDate   == range[2]
            result    == CreateResult(employeeId, startDate, endDate)
        IN  /\ result = "Created" => nextId <= MaxId
            /\ requests' = AfterCreate(employeeId, startDate, endDate, reason)
            /\ nextId' = IF result = "Created" THEN nextId + 1 ELSE nextId
            /\ last' = Call("create", result, IF result = "Created" THEN nextId ELSE 0)
            /\ listed' = <<>>
            /\ UNCHANGED otherVars
            /\ UNCHANGED today

(* ------------------------------------------------------------------ *)
(* PUT /api/leaverequests/{id}?managerId=                               *)
(* ------------------------------------------------------------------ *)

\* Mutant: the request is looked up before the manager.
UpdateResult_RequestFirst(id, managerId, statusString) ==
    IF ~RequestExists(id) THEN "NotFound"
    ELSE IF ~IsManager(managerId) THEN "Unauthorized"
    ELSE IF ~TryParseStatus(statusString).ok THEN "InvalidStatus"
    ELSE "NoContent"

\* The response of UpdateLeaveStatus, in the order the code tests:
\*   Unauthorized()                                                  Unauthorized
\*   NotFound()                                                      NotFound
\*   BadRequest("Invalid status. Must be 'Approved' or 'Rejected'.") InvalidStatus
\*   NoContent()                                                     NoContent
UpdateResult(id, managerId, statusString) ==
    IF ~IsManager(managerId) THEN "Unauthorized"
    ELSE IF ~RequestExists(id) THEN "NotFound"
    ELSE IF ~TryParseStatus(statusString).ok THEN "InvalidStatus"
    ELSE "NoContent"

\* Mutant: the approval of a long request is dropped.
AssignedStatus_NoOverride(request, status) ==
    LET duration == request.endDate - request.startDate IN
    IF duration > AutoRejectDays /\ status = "Approved"
    THEN request.status
    ELSE status

\* The status the row gets: both branches of the duration test assign it.
AssignedStatus(request, status) ==
    LET duration == request.endDate - request.startDate IN
    IF duration > AutoRejectDays /\ status = "Approved"
    THEN status
    ELSE status

\* Mutant: the status is written to every request of the same employee.
AfterUpdate_AllOfEmployee(id, managerId, statusString) ==
    IF UpdateResult(id, managerId, statusString) = "NoContent"
    THEN { IF lr.employeeId = FindRequest(id).employeeId
           THEN [lr EXCEPT !.status =
                    AssignedStatus(lr, TryParseStatus(statusString).status)]
           ELSE lr : lr \in requests }
    ELSE requests

\* The table after the call: request.Status = status; SaveChangesAsync().
AfterUpdate(id, managerId, statusString) ==
    IF UpdateResult(id, managerId, statusString) = "NoContent"
    THEN { IF lr.id = id
           THEN [lr EXCEPT !.status =
                    AssignedStatus(lr, TryParseStatus(statusString).status)]
           ELSE lr : lr \in requests }
    ELSE requests

UpdateLeaveStatus ==
    \E id \in RequestIds, managerId \in ActorIds, statusString \in StatusStrings :
        LET result == UpdateResult(id, managerId, statusString) IN
        /\ requests' = AfterUpdate(id, managerId, statusString)
        /\ last' = Call("setStatus", result, IF result = "NoContent" THEN id ELSE 0)
        /\ listed' = <<>>
        /\ UNCHANGED otherVars
        /\ UNCHANGED <<nextId, today>>

(* ------------------------------------------------------------------ *)
(* DELETE /api/leaverequests/{id}?employeeId=                           *)
(* ------------------------------------------------------------------ *)

\* Mutant: the owner is not compared.
NotOwner_ExistsOnly(id, employeeId) == ~RequestExists(id)

\* request == null || request.EmployeeId != employeeId
NotOwner(id, employeeId) ==
    ~RequestExists(id) \/ FindRequest(id).employeeId # employeeId

\* request.Status != LeaveStatus.Pending
NotPending(id) == FindRequest(id).status # "Pending"

\* Mutant: any known employee may cancel a stored request.
CancelResult_AnyEmployee(id, employeeId) ==
    IF ~RequestExists(id) \/ ~EmployeeExists(employeeId) THEN "Unauthorized"
    ELSE IF NotPending(id) THEN "InvalidState"
    ELSE "NoContent"

\* Mutant: the status of the request is not looked at.
CancelResult_AnyStatus(id, employeeId) ==
    IF NotOwner(id, employeeId) THEN "Unauthorized" ELSE "NoContent"

\* Mutant: the status is tested before the owner.
CancelResult_StatusFirst(id, employeeId) ==
    IF RequestExists(id) /\ NotPending(id) THEN "InvalidState"
    ELSE IF NotOwner(id, employeeId) THEN "Unauthorized"
    ELSE "NoContent"

\* The response of CancelLeaveRequest:
\*   Unauthorized()                                        Unauthorized
\*   BadRequest("Only pending requests can be canceled")   InvalidState
\*   NoContent()                                           NoContent
CancelResult(id, employeeId) ==
    IF NotOwner(id, employeeId) THEN "Unauthorized"
    ELSE IF NotPending(id) THEN "InvalidState"
    ELSE "NoContent"

\* Mutant: the row is removed before its status is tested.
AfterCancel_RemoveFirst(id, employeeId) ==
    IF NotOwner(id, employeeId)
    THEN requests
    ELSE { lr \in requests : lr.id # id }

\* The table after the call: Remove(request); SaveChangesAsync().
AfterCancel(id, employeeId) ==
    IF CancelResult(id, employeeId) = "NoContent"
    THEN { lr \in requests : lr.id # id }
    ELSE requests

CancelLeaveRequest ==
    \E id \in RequestIds, employeeId \in ActorIds :
        LET result == CancelResult(id, employeeId) IN
        /\ requests' = AfterCancel(id, employeeId)
        /\ last' = Call("cancel", result, IF result = "NoContent" THEN id ELSE 0)
        /\ listed' = <<>>
        /\ UNCHANGED otherVars
        /\ UNCHANGED <<nextId, today>>

(* ------------------------------------------------------------------ *)
(* DELETE /api/leaverequests/{id}/permanent?managerId=                  *)
(* ------------------------------------------------------------------ *)

\* Mutant: only a Pending request can be removed, as in a cancel.
DeleteResult_PendingOnly(id, managerId) ==
    IF ~IsManager(managerId) THEN "Unauthorized"
    ELSE IF ~RequestExists(id) THEN "NotFound"
    ELSE IF NotPending(id) THEN "InvalidState"
    ELSE "NoContent"

\* The response of PermanentlyDeleteRequest:
\*   Unauthorized() / NotFound() / NoContent()
DeleteResult(id, managerId) ==
    IF ~IsManager(managerId) THEN "Unauthorized"
    ELSE IF ~RequestExists(id) THEN "NotFound"
    ELSE "NoContent"

\* The table after the call: Remove(request); SaveChangesAsync().
AfterDelete(id, managerId) ==
    IF DeleteResult(id, managerId) = "NoContent"
    THEN { lr \in requests : lr.id # id }
    ELSE requests

PermanentlyDeleteRequest ==
    \E id \in RequestIds, managerId \in ActorIds :
        LET result == DeleteResult(id, managerId) IN
        /\ requests' = AfterDelete(id, managerId)
        /\ last' = Call("delete", result, IF result = "NoContent" THEN id ELSE 0)
        /\ listed' = <<>>
        /\ UNCHANGED otherVars
        /\ UNCHANGED <<nextId, today>>

(* ------------------------------------------------------------------ *)
(* GET /api/leaverequests?employeeId=                                   *)
(* ------------------------------------------------------------------ *)

\* Mutant: every known employee is taken for a Manager.
RoleOf_Manager(id) == "Manager"

\* The role of a known employee: employee.Role
RoleOf(id) == (CHOOSE e \in Employees : e.id = id).role

\* Mutant: ascending order.
InOrder_Ascending(a, b) == a.startDate <= b.startDate

\* OrderByDescending(lr => lr.StartDate): a may come before b.
InOrder(a, b) == a.startDate >= b.startDate

\* .OrderByDescending(lr => lr.StartDate).ToListAsync() on the rows S: every
\* row once, in descending order of StartDate. The query names no second key,
\* so rows with the same StartDate come in an order the database picks.
RECURSIVE OrderByDescending(_)
OrderByDescending(S) ==
    IF S = {} THEN {<<>>}
    ELSE UNION { { <<first>> \o rest : rest \in OrderByDescending(S \ {first}) }
                 : first \in {a \in S : \A b \in S : InOrder(a, b)} }

\* Mutant: an Employee is not restricted to their own rows.
Selected_NoFilter(employeeId) == requests

\* The rows the query selects: all of them without an id or for a Manager,
\* .Where(lr => lr.EmployeeId == employeeId) for an Employee.
Selected(employeeId) ==
    IF ~employeeId.hasValue THEN requests
    ELSE IF RoleOf(employeeId.value) = "Manager" THEN requests
    ELSE { lr \in requests : lr.employeeId = employeeId.value }

\* The response of GetLeaveRequests:
\*   NotFound("Employee not found")   NotFound
\*   the list                         Ok
GetResult(employeeId) ==
    IF ~employeeId.hasValue THEN "Ok"
    ELSE IF ~EmployeeExists(employeeId.value) THEN "NotFound"
    ELSE "Ok"

\* The lists the call may return (no list with NotFound).
GetLists(employeeId) ==
    IF GetResult(employeeId) = "Ok"
    THEN OrderByDescending(Selected(employeeId))
    ELSE {<<>>}

GetLeaveRequests ==
    \E employeeId \in OptionalIds :
        \E list \in GetLists(employeeId) :
            /\ listed' = list
            /\ UNCHANGED otherVars
            /\ last' = Call("list", GetResult(employeeId), 0)
            /\ UNCHANGED <<requests, nextId, today>>

(* ------------------------------------------------------------------ *)
(* The system                                                           *)
(* ------------------------------------------------------------------ *)

Next ==
    \/ CreateLeaveRequest
    \/ UpdateLeaveStatus
    \/ CancelLeaveRequest
    \/ PermanentlyDeleteRequest

\* The calls that write to the table.
Spec == Init /\ [][Next]_vars

NextList ==
    \/ Next
    \/ GetLeaveRequests

\* The same calls, and the query between them.
SpecList == Init /\ [][NextList]_vars

(* ------------------------------------------------------------------ *)
(* Two POST /api/leaverequests in flight                                *)
(*                                                                      *)
(* CreateLeaveRequest awaits the database twice: AnyAsync reads the     *)
(* table, SaveChangesAsync inserts the row. The action opens no         *)
(* transaction, so another request runs between the two.                *)
(* ------------------------------------------------------------------ *)

\* The ranges the two POSTs carry: a short one, one of AutoRejectDays days
\* that shares a day with it, and a long one after both.
ConcurrentRanges(t) ==
    { <<t, t + 1>>,
      <<t + 1, t + AutoRejectDays>>,
      <<t + AutoRejectDays + 1, t + 2 * AutoRejectDays + 2>> }

\* From the first line to the overlap check: the response when a check
\* fails, the dto kept for the insert when all pass.
CheckCreate(p) ==
    /\ creates[p].pc = "idle"
    /\ \E employeeId \in {e.id : e \in Employees}, range \in ConcurrentRanges(today) :
        LET result == CreateResult(employeeId, range[1], range[2])
        IN  /\ creates' = [creates EXCEPT ![p] =
                    [pc |-> IF result = "Created" THEN "checked" ELSE "done",
                     employeeId |-> employeeId,
                     startDate |-> range[1], endDate |-> range[2],
                     result |-> IF result = "Created" THEN "none" ELSE result,
                     id |-> 0]]
            /\ last' = IF result = "Created" THEN last ELSE Call("create", result, 0)
            /\ listed' = IF result = "Created" THEN listed ELSE <<>>
            /\ UNCHANGED <<requests, nextId, today, formVars, userVars>>

\* new LeaveRequest { ... }; Add; SaveChangesAsync; CreatedAtAction.
CommitCreate(p) ==
    /\ creates[p].pc = "checked"
    /\ \E reason \in Reasons :
        requests' = requests \cup
            {NewRequest(nextId, creates[p].employeeId, creates[p].startDate,
                        creates[p].endDate, reason)}
    /\ nextId' = nextId + 1
    /\ creates' = [creates EXCEPT ![p].pc = "done",
                                  ![p].result = "Created",
                                  ![p].id = nextId]
    /\ last' = Call("create", "Created", nextId)
    /\ listed' = <<>>
    /\ UNCHANGED <<today, formVars, userVars>>

\* The calls that fill the table before the two POSTs arrive.
Setup ==
    /\ \A p \in Procs : creates[p].pc = "idle"
    /\ Next
    /\ nextId' <= MaxSetupRows + 1

NextConcurrent ==
    \/ Setup
    \/ \E p \in Procs : CheckCreate(p)
    \/ \E p \in Procs : CommitCreate(p)

\* A table of at most MaxSetupRows rows, then two POSTs interleaved.
SpecConcurrent == Init /\ [][NextConcurrent]_vars

(* ------------------------------------------------------------------ *)
(* CreateRequestForm                                                    *)
(*                                                                      *)
(* An instant is a number of hours since day 0, 00:00 UTC.              *)
(* ------------------------------------------------------------------ *)

\* reason.trim().length < 10
MinReasonLength == 10

RECURSIVE TrimStart(_)
TrimStart(text) ==
    IF text # <<>> /\ Head(text) = " " THEN TrimStart(Tail(text)) ELSE text

RECURSIVE TrimEnd(_)
TrimEnd(text) ==
    IF text # <<>> /\ text[Len(text)] = " "
    THEN TrimEnd(SubSeq(text, 1, Len(text) - 1))
    ELSE text

\* String.prototype.trim
Trim(text) == TrimEnd(TrimStart(text))

\* new Date('YYYY-MM-DD'): midnight UTC of that calendar date.
ParseDate(iso) == iso[1] * 24

\* new Date(); setHours(0, 0, 0, 0): midnight local time of the local day.
LocalMidnight(day, zone) == day * 24 - zone

\* date.toISOString().split('T')[0]: the calendar date of the instant in UTC.
ToIsoDate(instant) == IsoDate(instant \div 24)

\* Mutant: a start date up to a day old is let through.
StartDateError_DayLate(f, day, zone) ==
    IF f.startDate = NoDate THEN "Start date is required"
    ELSE IF ParseDate(f.startDate) < LocalMidnight(day, zone) - 24
         THEN "Start date cannot be in the past"
         ELSE ""

\* errors.startDate as validateForm leaves it ("" when it sets none).
StartDateError(f, day, zone) ==
    IF f.startDate = NoDate THEN "Start date is required"
    ELSE IF ParseDate(f.startDate) < LocalMidnight(day, zone)
         THEN "Start date cannot be in the past"
         ELSE ""

\* errors.endDate; with no start date new Date('') is Invalid Date and the
\* comparison endDate <= startDate is false.
EndDateError(f) ==
    IF f.endDate = NoDate THEN "End date is required"
    ELSE IF f.startDate # NoDate /\ ParseDate(f.endDate) <= ParseDate(f.startDate)
         THEN "End date must be after start date"
         ELSE ""

\* errors.reason
ReasonError(f) ==
    IF Trim(f.reason) = NoText THEN "Reason is required"
    ELSE IF Len(Trim(f.reason)) < MinReasonLength
         THEN "Reason must be at least 10 characters long"
         ELSE ""

FieldError(field, f, day, zone) ==
    CASE field = "startDate" -> StartDateError(f, day, zone)
      [] field = "endDate"   -> EndDateError(f)
      [] field = "reason"    -> ReasonError(f)

\* The errors object validateForm builds: a key for each failed field.
ValidateForm(f, day, zone) ==
    [field \in {k \in {"startDate", "endDate", "reason"} :
                    FieldError(k, f, day, zone) # ""}
        |-> FieldError(field, f, day, zone)]

\* if (validationErrors.x) setValidationErrors({ ...validationErrors, x: '' })
ClearError(errors, field) ==
    IF field \in DOMAIN errors /\ errors[field] # ""
    THEN [k \in DOMAIN errors |-> IF k = field THEN "" ELSE errors[k]]
    ELSE errors

\* The days the date picker offers, each as midnight local time of that day.
PickerDays(t) == {t - 1, t, t + 1}

\* n characters c in a row.
Repeat(c, n) == [i \in 1..n |-> c]

\* What is typed into the reason field: nothing, blanks, nine letters, nine
\* letters between blanks, ten letters, ten letters after blanks.
FormReasons ==
    { NoText,
      Repeat(" ", 3),
      Repeat("x", MinReasonLength - 1),
      <<" ">> \o Repeat("x", MinReasonLength - 1) \o <<" ">>,
      Repeat("x", MinReasonLength),
      <<" ", " ">> \o Repeat("x", MinReasonLength) }

\* What api.post rejects with: err.response?.data and err.message, "" when absent.
PostErrors ==
    { [data |-> "Overlapping approved leave exists for this period",
       message |-> "Request failed with status code 400"],
      [data |-> "", message |-> "Network Error"],
      [data |-> "", message |-> ""] }

\* Mutant: only the response body is used.
ErrorMessage_DataOnly(err) == err.data

\* err.response?.data || err.message || 'Failed to create leave request'
ErrorMessage(err) ==
    IF err.data # "" THEN err.data
    ELSE IF err.message # "" THEN err.message
    ELSE "Failed to create leave request"

handleStartDateChange ==
    \E day \in PickerDays(today) :
        /\ form' = [form EXCEPT !.startDate = ToIsoDate(LocalMidnight(day, tz))]
        /\ validationErrors' = ClearError(validationErrors, "startDate")
        /\ last' = Call("change", "startDate", 0)
        /\ UNCHANGED <<submitting, error, posts, created, tz, serverVars, userVars>>

handleEndDateChange ==
    \E day \in PickerDays(today) :
        /\ form' = [form EXCEPT !.endDate = ToIsoDate(LocalMidnight(day, tz))]
        /\ validationErrors' = ClearError(validationErrors, "endDate")
        /\ last' = Call("change", "endDate", 0)
        /\ UNCHANGED <<submitting, error, posts, created, tz, serverVars, userVars>>

handleReasonChange ==
    \E text \in FormReasons :
        /\ form' = [form EXCEPT !.reason = text]
        /\ validationErrors' = ClearError(validationErrors, "reason")
        /\ last' = Call("change", "reason", 0)
        /\ UNCHANGED <<submitting, error, posts, created, tz, serverVars, userVars>>

\* The submit button is pressed (it is disabled while submitting): up to the
\* call of api.post, or to the early return when validateForm fails.
submit ==
    /\ ~submitting
    /\ error' = NoError
    /\ validationErrors' = ValidateForm(form, today, tz)
    /\ IF ValidateForm(form, today, tz) = NoErrors
       THEN /\ posts < MaxPosts
            /\ submitting' = TRUE
            /\ posts' = posts + 1
            /\ last' = Call("submit", "Posted", 0)
       ELSE /\ UNCHANGED <<submitting, posts>>
            /\ last' = Call("submit", "Invalid", 0)
    /\ UNCHANGED <<form, created, tz, serverVars, userVars>>

\* api.post resolves: onCreated(), the form reset, finally setSubmitting(false).
postResolves ==
    /\ submitting
    /\ created' = created + 1
    /\ form' = EmptyForm(form.employeeId)
    /\ validationErrors' = NoErrors
    /\ submitting' = FALSE
    /\ last' = Call("submit", "Resolved", 0)
    /\ UNCHANGED <<error, posts, tz, serverVars, userVars>>

\* api.post rejects: setError(errorMessage), finally setSubmitting(false).
postRejects ==
    /\ submitting
    /\ \E err \in PostErrors : error' = ErrorMessage(err)
    /\ submitting' = FALSE
    /\ last' = Call("submit", "Rejected", 0)
    /\ UNCHANGED <<form, validationErrors, posts, created, tz, serverVars, userVars>>

\* <Alert onClose={() => setError(null)}>, shown while error is set.
closeAlert ==
    /\ error # NoError
    /\ error' = NoError
    /\ last' = Call("close", "none", 0)
    /\ UNCHANGED <<form, validationErrors, submitting, posts, created, tz, serverVars, userVars>>

InitForm ==
    /\ InitServer
    /\ InitProvider(NoItem)
    /\ \E employeeId \in {e.id : e \in Employees}, zone \in TimeZones :
            InitBrowser(employeeId, zone)

NextForm ==
    \/ handleStartDateChange
    \/ handleEndDateChange
    \/ handleReasonChange
    \/ submit
    \/ postResolves
    \/ postRejects
    \/ closeAlert

\* One mounted form, its user and the api.post it awaits.
SpecForm == InitForm /\ [][NextForm]_vars

(* ------------------------------------------------------------------ *)
(* UserProvider and localStorage                                        *)
(* ------------------------------------------------------------------ *)

\* The employees the login page hands to login(): id, name, email and the
\* role as the API sends it, the number of the enum value.
LoginUsers ==
    { [id |-> 1, name |-> "Alex Employee", email |-> "alex@company.com", role |-> 0],
      [id |-> 2, name |-> "Morgan Manager", email |-> "morgan@company.com", role |-> 1] }

\* The text of a number.
NumberText(n) ==
    CASE n = 0 -> "0"
      [] n = 1 -> "1"
      [] n = 2 -> "2"

IsNumberText(token) == token \in {"0", "1", "2"}

\* The number a text denotes.
TextNumber(token) ==
    CASE token = "0" -> 0
      [] token = "1" -> 1
      [] token = "2" -> 2

\* Mutant: the email is left out of the text.
Stringify_NoEmail(employee) ==
    << "{", "id", NumberText(employee.id), "name", employee.name,
       "email", "", "role", NumberText(employee.role), "}" >>

\* JSON.stringify(employee): the tokens of the object's text.
Stringify(employee) ==
    << "{", "id", NumberText(employee.id), "name", employee.name,
       "email", employee.email, "role", NumberText(employee.role), "}" >>

\* Does JSON.parse(text) return (TRUE) or throw (FALSE).
Parses(text) ==
    /\ Len(text) = 10
    /\ text[1] = "{" /\ text[10] = "}"
    /\ text[2] = "id" /\ IsNumberText(text[3])
    /\ text[4] = "name"
    /\ text[6] = "email"
    /\ text[8] = "role" /\ IsNumberText(text[9])

\* JSON.parse(text), where it returns.
Parse(text) ==
    [id |-> TextNumber(text[3]), name |-> text[5], email |-> text[7],
     role |-> TextNumber(text[9])]

\* What localStorage holds when the page is first opened: nothing, the empty
\* string, a text cut off after its first token, or an earlier login.
SavedValues ==
    {NoItem, Item(<<>>), Item(<<"{">>)} \cup {Item(Stringify(e)) : e \in LoginUsers}

\* useEffect(() => { ... }, []): runs once after the provider's first render.
mountEffect ==
    /\ effectPending
    /\ IF saved.present /\ saved.text # <<>>
       THEN IF Parses(saved.text)
            THEN /\ user' = <<Parse(saved.text)>>
                 /\ saved' = saved
            ELSE /\ user' = user
                 /\ saved' = NoItem
       ELSE UNCHANGED <<user, saved>>
    /\ isLoading' = FALSE
    /\ effectPending' = FALSE
    /\ last' = Call("effect", "none", 0)
    /\ UNCHANGED <<mounts, serverVars, formVars>>

login ==
    \E employee \in LoginUsers :
        /\ user' = <<employee>>
        /\ saved' = Item(Stringify(employee))
        /\ last' = Call("login", "none", employee.id)
        /\ UNCHANGED <<isLoading, effectPending, mounts, serverVars, formVars>>

logout ==
    /\ user' = NoUser
    /\ saved' = NoItem
    /\ last' = Call("logout", "none", 0)
    /\ UNCHANGED <<isLoading, effectPending, mounts, serverVars, formVars>>

\* The page is loaded again: a new provider renders first with its initial
\* state, localStorage is what the last one left.
mountProvider ==
    /\ ~effectPending
    /\ mounts < MaxMounts
    /\ mounts' = mounts + 1
    /\ user' = NoUser
    /\ isLoading' = TRUE
    /\ effectPending' = TRUE
    /\ last' = Call("mount", "none", 0)
    /\ UNCHANGED <<saved, serverVars, formVars>>

InitUser ==
    /\ InitServer
    /\ InitBrowser(1, 0)
    /\ \E item \in SavedValues : InitProvider(item)

NextUser ==
    \/ mountEffect
    \/ login
    \/ logout
    \/ mountProvider

\* One page: its UserProvider, its localStorage, and reloads.
SpecUser == InitUser /\ [][NextUser]_vars

StatusValues == {LeaveStatus[i] : i \in DOMAIN LeaveStatus}

TypeOK ==
    /\ nextId \in 1..(MaxId + Cardinality(Procs) + 1)
    /\ today = FirstDay
    /\ \A lr \in requests :
        /\ lr.id \in 1..(nextId - 1)
        /\ lr.employeeId \in {e.id : e \in Employees}
        /\ lr.status \in StatusValues
    /\ \A a, b \in requests : a.id = b.id => a = b

(* ================================================================== *)
(* Properties                                                           *)
(* ================================================================== *)

\* Ids of the seeded employees and of the seeded managers.
KnownIds == {e.id : e \in Employees}
ManagerIds == {e.id : e \in {m \in Employees : m.role = "Manager"}}

\* Closed intervals [s1, e1] and [s2, e2] share a day.
Intersects(s1, e1, s2, e2) == s1 <= e2 /\ e1 >= s2

\* Inclusive length of a stored row.
Days(lr) == (lr.endDate - lr.startDate) + 1

\* The row a call named (the call's id is the row it touched).
Touched == { lr \in requests : lr.id = last.id }

\* C1: no two distinct Approved requests of the same employee have
\* intersecting closed date ranges, in any reachable state.
C1_NoOverlappingApproved ==
    \A a, b \in requests :
        ( /\ a.id # b.id
          /\ a.employeeId = b.employeeId
          /\ a.status = "Approved"
          /\ b.status = "Approved" )
        => ~Intersects(a.startDate, a.endDate, b.startDate, b.endDate)

\* C2 as stated: a create with startDate = endDate, of a known employee, not
\* in the past and free of overlap, succeeds and stores a request of one day;
\* every startDate <= endDate passes the range check.
C2_SingleDayIsCreated ==
    \A employeeId \in KnownIds, range \in DateRanges(today), reason \in Reasons :
        LET startDate == range[1]
            endDate   == range[2]
        IN  /\ ( /\ startDate = endDate
                 /\ startDate >= today
                 /\ ~\E lr \in requests :
                        /\ lr.employeeId = employeeId
                        /\ lr.status = "Approved"
                        /\ Intersects(lr.startDate, lr.endDate, startDate, endDate) )
               => /\ CreateResult(employeeId, startDate, endDate) = "Created"
                  /\ \E lr \in AfterCreate(employeeId, startDate, endDate, reason) :
                        lr.id = nextId /\ Days(lr) = 1
            /\ startDate <= endDate
               => CreateResult(employeeId, startDate, endDate) # "InvalidRange"

\* C2 amended: a create with startDate = endDate of a known employee fails
\* with InvalidRange and stores nothing; every startDate < endDate passes the
\* range check; so every stored request has startDate < endDate.
C2_SingleDayIsInvalidRange ==
    /\ \A employeeId \in KnownIds, range \in DateRanges(today), reason \in Reasons :
        LET startDate == range[1]
            endDate   == range[2]
        IN  /\ startDate = endDate
               => /\ CreateResult(employeeId, startDate, endDate) = "InvalidRange"
                  /\ AfterCreate(employeeId, startDate, endDate, reason) = requests
            /\ startDate < endDate
               => CreateResult(employeeId, startDate, endDate) # "InvalidRange"
    /\ \A lr \in requests : lr.startDate < lr.endDate

\* A create was refused for its range, a single day among the ranges sent,
\* while the table holds requests.
C2_Witness ==
    /\ last.op = "create"
    /\ last.result = "InvalidRange"
    /\ \E range \in DateRanges(today) : range[1] = range[2] /\ range[1] >= today
    /\ requests # {}

\* C3: a create of a known employee with startDate >= endDate fails with
\* InvalidRange and adds no request.
C3_InvalidRange ==
    \A employeeId \in KnownIds, range \in DateRanges(today), reason \in Reasons :
        LET startDate == range[1]
            endDate   == range[2]
        IN  startDate >= endDate
            => /\ CreateResult(employeeId, startDate, endDate) = "InvalidRange"
               /\ AfterCreate(employeeId, startDate, endDate, reason) = requests

\* The first call ever was a create refused for its range: the table is
\* still empty and no id was used.
C3_Witness ==
    /\ last.op = "create"
    /\ last.result = "InvalidRange"
    /\ requests = {}
    /\ nextId = 1
    /\ \E range \in DateRanges(today) : range[1] > range[2]

\* C4: a create of a known employee with startDate < endDate fails with
\* PastDate exactly when startDate < today; startDate = today is not refused
\* by this rule; on PastDate the table is unchanged.
C4_PastDate ==
    \A employeeId \in KnownIds, range \in DateRanges(today), reason \in Reasons :
        LET startDate == range[1]
            endDate   == range[2]
            result    == CreateResult(employeeId, startDate, endDate)
        IN  startDate < endDate
            => /\ (result = "PastDate") <=> (startDate < today)
               /\ startDate = today => result # "PastDate"
               /\ result = "PastDate"
                  => AfterCreate(employeeId, startDate, endDate, reason) = requests

\* A create was refused as past while a request that starts today is stored.
C4_Witness ==
    /\ last.op = "create"
    /\ last.result = "PastDate"
    /\ \E lr \in requests : lr.startDate = today

\* C5: a create that passes the range and past-date checks fails with
\* OverlapConflict if and only if the table holds an Approved request of the
\* same employee whose closed interval intersects the new one.
C5_OverlapConflict ==
    \A employeeId \in KnownIds, range \in DateRanges(today) :
        LET startDate == range[1]
            endDate   == range[2]
        IN  (startDate < endDate /\ startDate >= today)
            => ( (CreateResult(employeeId, startDate, endDate) = "OverlapConflict")
                 <=> \E lr \in requests :
                        /\ lr.employeeId = employeeId
                        /\ lr.status = "Approved"
                        /\ lr.startDate <= endDate
                        /\ lr.endDate >= startDate )

\* A create was refused for overlap while the table holds an Approved
\* request and a request created after it, of another employee, that
\* intersects it.
C5_Witness ==
    /\ last.op = "create"
    /\ last.result = "OverlapConflict"
    /\ \E a, b \in requests :
        /\ a.id < b.id
        /\ a.status = "Approved"
        /\ a.employeeId # b.employeeId
        /\ Intersects(a.startDate, a.endDate, b.startDate, b.endDate)

\* C6: a created request is Rejected when its inclusive duration
\* (endDate - startDate) + 1 exceeds 15 and Pending otherwise.
C6_InitialStatus ==
    \A employeeId \in KnownIds, range \in DateRanges(today), reason \in Reasons :
        LET startDate == range[1]
            endDate   == range[2]
        IN  CreateResult(employeeId, startDate, endDate) = "Created"
            => \E lr \in AfterCreate(employeeId, startDate, endDate, reason) :
                /\ lr \notin requests
                /\ lr.id = nextId
                /\ lr.startDate = startDate /\ lr.endDate = endDate
                /\ lr.status = IF (endDate - startDate) + 1 > 15
                               THEN "Rejected" ELSE "Pending"

\* A create just stored a request of 16 days as Rejected, next to a request
\* of 15 days that is Pending.
C6_Witness ==
    /\ last.op = "create"
    /\ last.result = "Created"
    /\ \E lr \in Touched : Days(lr) = 16 /\ lr.status = "Rejected"
    /\ \E lr \in requests : Days(lr) = 15 /\ lr.status = "Pending"

C8_NonManagerUnauthorized ==
    \A id \in RequestIds, actorId \in ActorIds \ ManagerIds, statusString \in StatusStrings :
        /\ UpdateResult(id, actorId, statusString) = "Unauthorized"
        /\ AfterUpdate(id, actorId, statusString) = requests

\* A setStatus was refused as Unauthorized while requests are stored.
C8_Witness ==
    /\ last.op = "setStatus"
    /\ last.result = "Unauthorized"
    /\ requests # {}

\* C9: a request that has left Pending never returns to Pending (setStatus
\* accepts only Approved and Rejected).
C9_NeverBackToPending ==
    [][ \A lr \in requests :
            lr.status # "Pending"
            => \A nr \in requests' : nr.id = lr.id => nr.status # "Pending" ]_vars

\* C10: cancelRequest(id, employeeId) removes the request if and only if it
\* is stored, owned by employeeId and Pending; otherwise it fails
\* (Unauthorized when absent or not owned, InvalidState when owned but not
\* Pending) and the table is unchanged.
C10_Cancel ==
    \A id \in RequestIds, employeeId \in ActorIds :
        LET owned == { lr \in requests : lr.id = id /\ lr.employeeId = employeeId }
            result == CancelResult(id, employeeId)
            after  == AfterCancel(id, employeeId)
        IN  /\ (\E lr \in owned : lr.status = "Pending")
               => /\ result = "NoContent"
                  /\ after = requests \ owned
            /\ (owned # {} /\ \A lr \in owned : lr.status # "Pending")
               => /\ result = "InvalidState"
                  /\ after = requests
            /\ owned = {}
               => /\ result = "Unauthorized"
                  /\ after = requests

\* A cancel just removed a request (its id is free again) while another
\* request stays stored.
C10_Witness ==
    /\ last.op = "cancel"
    /\ last.result = "NoContent"
    /\ last.id \in 1..(nextId - 1)
    /\ ~\E lr \in requests : lr.id = last.id
    /\ requests # {}

\* C11: for a caller who does not own request id, cancelRequest answers
\* Unauthorized whether the request is absent or stored for another
\* employee, and whatever its status is: the two cases cannot be told apart
\* and a non-owner never sees InvalidState.
C11_NonOwnerCannotTell ==
    \A employeeId \in ActorIds, id1 \in RequestIds, id2 \in RequestIds :
        LET notOwned(id) ==
                ~\E lr \in requests : lr.id = id /\ lr.employeeId = employeeId
        IN  (notOwned(id1) /\ notOwned(id2))
            => /\ CancelResult(id1, employeeId) = CancelResult(id2, employeeId)
               /\ CancelResult(id1, employeeId) = "Unauthorized"
               /\ AfterCancel(id1, employeeId) = requests

\* A cancel was refused as Unauthorized while one id is free and another
\* belongs to a stored request that is not Pending: its owner is the only
\* caller who is told so.
C11_Witness ==
    /\ last.op = "cancel"
    /\ last.result = "Unauthorized"
    /\ \E id \in RequestIds : ~\E lr \in requests : lr.id = id
    /\ \E lr \in requests : lr.status = "Approved"

\* C12: deleteRequest(id, managerId) by a Manager removes a stored request
\* whatever its status and owner; it fails with Unauthorized when the actor
\* is unknown or not a Manager and with NotFound when the request is absent,
\* and the table is unchanged in both failures.
C12_PermanentDelete ==
    \A id \in RequestIds, actorId \in ActorIds :
        LET row    == { lr \in requests : lr.id = id }
            result == DeleteResult(id, actorId)
            after  == AfterDelete(id, actorId)
        IN  /\ (actorId \in ManagerIds /\ row # {})
               => result = "NoContent" /\ after = requests \ row
            /\ actorId \notin ManagerIds
               => result = "Unauthorized" /\ after = requests
            /\ (actorId \in ManagerIds /\ row = {})
               => result = "NotFound" /\ after = requests

\* A permanent delete just removed a request while an Approved request of
\* the employee who is no Manager stays stored.
C12_Witness ==
    /\ last.op = "delete"
    /\ last.result = "NoContent"
    /\ ~\E lr \in requests : lr.id = last.id
    /\ \E lr \in requests : lr.status = "Approved" /\ lr.employeeId \notin ManagerIds

\* The rows of a returned list.
Range(list) == { list[i] : i \in DOMAIN list }

\* C13: listRequests returns exactly all stored requests when the caller id
\* is a Manager's or is absent, exactly the requests whose employeeId is the
\* caller's when the caller is an Employee, and NotFound when the id is
\* unknown; each request appears once.
C13_ListContents ==
    \A employeeId \in OptionalIds :
        LET expected ==
                IF ~employeeId.hasValue \/ employeeId.value \in ManagerIds
                THEN requests
                ELSE { lr \in requests : lr.employeeId = employeeId.value }
        IN  /\ (employeeId.hasValue /\ employeeId.value \notin KnownIds)
               <=> GetResult(employeeId) = "NotFound"
            /\ GetResult(employeeId) = "Ok"
               => /\ GetLists(employeeId) # {}
                  /\ \A list \in GetLists(employeeId) :
                        /\ Range(list) = expected
                        /\ Len(list) = Cardinality(expected)

\* C13, the frame: listRequests never changes the table.
C13_ListChangesNothing ==
    [][last'.op = "list" => requests' = requests /\ nextId' = nextId]_vars

\* A list call just returned some rows, all of one employee, while the table
\* holds a row of another employee too.
C13_Witness ==
    /\ last.op = "list"
    /\ last.result = "Ok"
    /\ listed # <<>>
    /\ Range(listed) # requests
    /\ \A lr \in Range(listed) : lr.employeeId \notin ManagerIds

\* C14: every list listRequests returns is ordered by startDate descending:
\* consecutive elements a, b have a.startDate >= b.startDate.
C14_ListOrder ==
    /\ \A i \in 1..(Len(listed) - 1) : listed[i].startDate >= listed[i + 1].startDate
    /\ \A employeeId \in OptionalIds : \A list \in GetLists(employeeId) :
            \A i \in 1..(Len(list) - 1) : list[i].startDate >= list[i + 1].startDate

\* A list call just returned two rows with different start dates.
C14_Witness ==
    /\ last.op = "list"
    /\ Len(listed) >= 2
    /\ listed[1].startDate > listed[2].startDate

\* Responses that report success.
Succeeded(result) == result \in {"Created", "NoContent", "Ok"}

\* C15: every call either succeeds and applies its change to a single
\* record (one row added, one row's status set, or one row removed), or
\* returns an error and leaves the table, with every field of every row,
\* as it was before the call.
C15_AllOrNothing ==
    [][ /\ ~Succeeded(last'.result)
           => requests' = requests /\ nextId' = nextId
        /\ (last'.op = "create" /\ Succeeded(last'.result))
           => /\ \E lr \in requests' :
                    /\ lr.id = nextId
                    /\ lr.id = last'.id
                    /\ lr \notin requests
                    /\ requests' = requests \cup {lr}
              /\ nextId' = nextId + 1
        /\ (last'.op = "setStatus" /\ Succeeded(last'.result))
           => /\ \E lr \in requests, status \in StatusValues :
                    /\ lr.id = last'.id
                    /\ requests' = (requests \ {lr}) \cup {[lr EXCEPT !.status = status]}
              /\ nextId' = nextId
        /\ (last'.op \in {"cancel", "delete"} /\ Succeeded(last'.result))
           => /\ \E lr \in requests :
                    /\ lr.id = last'.id
                    /\ requests' = requests \ {lr}
              /\ nextId' = nextId
      ]_vars

\* A cancel was just refused as InvalidState: the request it named is still
\* stored and is not Pending.
C15_Witness ==
    /\ last.op = "cancel"
    /\ last.result = "InvalidState"
    /\ \E lr \in requests : lr.status # "Pending"

\* C17: as long as a request is stored its id, employeeId, startDate,
\* endDate and reason never change; setStatus changes only the status of the
\* request it names and leaves every other request as it is.
C17_Frame ==
    [][ /\ \A lr \in requests, nr \in requests' :
                lr.id = nr.id
                => /\ nr.employeeId = lr.employeeId
                   /\ nr.startDate = lr.startDate
                   /\ nr.endDate = lr.endDate
                   /\ nr.reason = lr.reason
        /\ last'.op = "setStatus"
           => /\ \A lr \in requests : lr.id # last'.id => lr \in requests'
              /\ {nr.id : nr \in requests'} = {lr.id : lr \in requests}
      ]_vars

\* A setStatus just changed one request; another request of the same
\* employee, with the same dates, kept its own status.
C17_Witness ==
    /\ last.op = "setStatus"
    /\ last.result = "NoContent"
    /\ \E a \in Touched, b \in requests :
        /\ a.id # b.id
        /\ a.employeeId = b.employeeId
        /\ a.startDate = b.startDate /\ a.endDate = b.endDate
        /\ a.status # b.status

\* C18: a stored request leaves the table only through a cancel issued with
\* its owner's id while it is Pending, or through a permanent delete issued
\* by a Manager; its status changes only through a setStatus issued by a
\* Manager. No call adds anything but a create, and a create removes and
\* changes nothing.
C18_OnlyPaths ==
    /\ \A employeeId \in ActorIds, range \in DateRanges(today), reason \in Reasons :
            requests \subseteq AfterCreate(employeeId, range[1], range[2], reason)
    /\ \A id \in RequestIds, actorId \in ActorIds, statusString \in StatusStrings :
            LET after == AfterUpdate(id, actorId, statusString)
            IN  \A lr \in requests :
                    \E nr \in after :
                        /\ nr.id = lr.id
                        /\ nr.status # lr.status
                           => actorId \in ManagerIds /\ id = lr.id
    /\ \A id \in RequestIds, employeeId \in ActorIds :
            LET after == AfterCancel(id, employeeId)
            IN  /\ after \subseteq requests
                /\ \A lr \in requests \ after :
                        /\ id = lr.id
                        /\ employeeId = lr.employeeId
                        /\ lr.status = "Pending"
    /\ \A id \in RequestIds, actorId \in ActorIds :
            LET after == AfterDelete(id, actorId)
            IN  /\ after \subseteq requests
                /\ \A lr \in requests \ after :
                        id = lr.id /\ actorId \in ManagerIds

\* A cancel just removed a request while a request whose status a Manager
\* has set stays stored.
C18_Witness ==
    /\ last.op = "cancel"
    /\ last.result = "NoContent"
    /\ \E lr \in requests : lr.status = "Approved" /\ Days(lr) <= AutoRejectDays

\* C16 (as stated): two concurrent creates for the same employee with
\* intersecting ranges never both pass the overlap check and both commit.
C16_NeverBothCommit ==
    \A p, q \in Procs :
        ( /\ p # q
          /\ creates[p].employeeId = creates[q].employeeId
          /\ Intersects(creates[p].startDate, creates[p].endDate,
                        creates[q].startDate, creates[q].endDate) )
        => ~( /\ creates[p].pc = "done" /\ creates[p].result = "Created"
              /\ creates[q].pc = "done" /\ creates[q].result = "Created" )

\* An Approved row of somebody else's making that stands in the way of p.
Blocked(p) ==
    \E lr \in requests :
        /\ lr.id # creates[p].id
        /\ lr.employeeId = creates[p].employeeId
        /\ lr.status = "Approved"
        /\ Intersects(lr.startDate, lr.endDate,
                      creates[p].startDate, creates[p].endDate)

\* C16 (amended): a concurrent create passes the overlap check exactly when
\* no Approved request of its employee intersects its range, whatever the
\* other create does; the row it then commits is Pending or Rejected, so it
\* never stands in the way of the other one.
C16_CreatesDoNotInterfere ==
    \A p \in Procs :
        creates[p].pc # "idle"
        => /\ (creates[p].pc = "checked" \/ creates[p].result = "Created")
              <=> ~Blocked(p)
           /\ creates[p].result = "Created"
              => \E lr \in requests :
                    /\ lr.id = creates[p].id
                    /\ lr.employeeId = creates[p].employeeId
                    /\ lr.startDate = creates[p].startDate
                    /\ lr.endDate = creates[p].endDate
                    /\ lr.status \in {"Pending", "Rejected"}

\* Both POSTs, for one employee and with a day in common, passed the check
\* before either inserted, and both rows are stored.
C16_Witness ==
    /\ creates[1].pc = "done" /\ creates[1].result = "Created"
    /\ creates[2].pc = "done" /\ creates[2].result = "Created"
    /\ creates[1].employeeId = creates[2].employeeId
    /\ Intersects(creates[1].startDate, creates[1].endDate,
                  creates[2].startDate, creates[2].endDate)
    /\ \E a, b \in requests : a.id = creates[1].id /\ b.id = creates[2].id /\ a.id # b.id

\* Positions of the characters of a text that are not blanks.
NonBlank(text) == {i \in 1..Len(text) : text[i] # " "}

\* Length of a text without its leading and trailing blanks.
TrimmedLength(text) ==
    IF NonBlank(text) = {} THEN 0
    ELSE LET first == CHOOSE i \in NonBlank(text) : \A j \in NonBlank(text) : i <= j
             final == CHOOSE i \in NonBlank(text) : \A j \in NonBlank(text) : i >= j
         IN  final - first + 1

\* The step just taken is a press of the submit button.
Pressed ==
    /\ ~submitting
    /\ last'.op = "submit"
    /\ last'.result \in {"Posted", "Invalid"}

\* The press went no further than validateForm and left this message.
Refused(field, message) ==
    /\ posts' = posts
    /\ created' = created
    /\ submitting' = FALSE
    /\ field \in DOMAIN validationErrors'
    /\ validationErrors'[field] = message

C20_ValidReasonReachesOnCreated ==
    [][ /\ ( /\ Pressed
             /\ TrimmedLength(form.reason) >= MinReasonLength
             /\ \/ form.startDate = NoDate /\ form.endDate = NoDate
                \/ /\ StartDateError(form, today, tz) = ""
                   /\ EndDateError(form) = "" )
           => posts' = posts + 1 /\ submitting'
        /\ (submitting /\ last'.op = "submit" /\ last'.result = "Resolved")
           => created' = created + 1
      ]_vars

\* C21: a create reports the first rule violated, in the order employee
\* lookup, range, past date, overlap: an unknown employee gets NotFound even
\* with invalid dates, startDate >= endDate gets InvalidRange even when the
\* start is in the past, a past start gets PastDate even when the range
\* intersects Approved leave.
C21_RuleOrder ==
    \A employeeId \in ActorIds, range \in DateRanges(today) :
        LET startDate == range[1]
            endDate   == range[2]
            unknown   == employeeId \notin KnownIds
            badRange  == startDate >= endDate
            past      == startDate < today
            overlaps  == \E lr \in requests :
                            /\ lr.employeeId = employeeId
                            /\ lr.status = "Approved"
                            /\ Intersects(lr.startDate, lr.endDate, startDate, endDate)
        IN  CreateResult(employeeId, startDate, endDate) =
                IF unknown THEN "NotFound"
                ELSE IF badRange THEN "InvalidRange"
                ELSE IF past THEN "PastDate"
                ELSE IF overlaps THEN "OverlapConflict"
                ELSE "Created"

\* A create was refused for its past start while a range sent that starts in
\* the past and ends later intersects Approved leave of a known employee.
C21_Witness ==
    /\ last.op = "create"
    /\ last.result = "PastDate"
    /\ \E range \in DateRanges(today), lr \in requests :
        /\ range[1] < today /\ range[1] < range[2]
        /\ lr.status = "Approved"
        /\ Intersects(lr.startDate, lr.endDate, range[1], range[2])

\* C22: setStatus tests the actor, then the request, then the status value:
\* an actor that is no Manager gets Unauthorized even for an absent request
\* or an invalid status, a Manager naming an absent request gets NotFound
\* even with an invalid status.
C22_CheckOrder ==
    /\ ~TryParseStatus("Cancelled").ok
    /\ \A id \in RequestIds, actorId \in ActorIds, statusString \in StatusStrings :
        LET absent == ~\E lr \in requests : lr.id = id
        IN  UpdateResult(id, actorId, statusString) =
                IF actorId \notin ManagerIds THEN "Unauthorized"
                ELSE IF absent THEN "NotFound"
                ELSE IF ~TryParseStatus(statusString).ok THEN "InvalidStatus"
                ELSE "NoContent"

\* A Manager's setStatus just named an absent request while the table
\* holds another one.
C22_Witness ==
    /\ last.op = "setStatus"
    /\ last.result = "NotFound"
    /\ requests # {}
    /\ \E id \in RequestIds : ~\E lr \in requests : lr.id = id

\* The days a date field is given in the comparison of the two validations.
ComparedDays(t) == (t - 2)..(t + 2)

C24_PostSettles ==
    [][ /\ (submitting /\ last'.op = "submit" /\ last'.result = "Resolved")
           => /\ ~submitting'
              /\ created' = created + 1
              /\ form'.employeeId = form.employeeId
              /\ form'.startDate = NoDate /\ form'.endDate = NoDate
              /\ form'.reason = NoText
              /\ DOMAIN validationErrors' = {}
              /\ posts' = posts
        /\ (submitting /\ last'.op = "submit" /\ last'.result = "Rejected")
           => /\ ~submitting'
              /\ created' = created
              /\ form' = form
              /\ error' # NoError /\ error' # ""
              /\ posts' = posts
        /\ (~submitting /\ submitting')
           => /\ ValidateForm(form, today, tz) = NoErrors
              /\ last'.op = "submit" /\ last'.result = "Posted"
      ]_vars

\* A post was rejected with neither a response body nor a message, after an
\* earlier one had resolved; the fields that passed validation are still there.
C24_Witness ==
    /\ last.op = "submit" /\ last.result = "Rejected"
    /\ ~submitting
    /\ created = 1 /\ posts = 2
    /\ error = "Failed to create leave request"
    /\ form.startDate # NoDate /\ form.endDate # NoDate
    /\ TrimmedLength(form.reason) >= MinReasonLength

\* After a login or logout: localStorage holds the text of the current user
\* exactly when there is one.
SavedIsUser ==
    IF user' = NoUser THEN ~saved'.present
    ELSE saved' = Item(Stringify(user'[1]))

\* The mount effect over an item that parses, and over no item; isLoading
\* ends false.
EffectRestores ==
    /\ isLoading' = FALSE
    /\ (saved.present /\ Parses(saved.text))
       => /\ saved' = saved
          /\ \E employee \in LoginUsers :
                Stringify(employee) = saved.text /\ user' = <<employee>>
    /\ ~saved.present
       => user' = user /\ saved' = saved

\* A new provider starts with no user and finds in localStorage the user the
\* last one had: that user's text, or nothing that parses when it had none.
MountFindsLast ==
    /\ saved' = saved
    /\ user' = NoUser /\ isLoading'
    /\ IF user = NoUser THEN ~(saved.present /\ Parses(saved.text))
       ELSE saved = Item(Stringify(user[1]))

\* C25 (as stated): login and logout keep localStorage and user in step, a
\* new provider restores the last logged-in user, isLoading becomes false,
\* and every saved value that does not parse is removed and leaves user null.
C25_SavedUser ==
    [][ /\ last'.op \in {"login", "logout"} => SavedIsUser
        /\ (~effectPending /\ effectPending') => MountFindsLast
        /\ (effectPending /\ ~effectPending')
           => /\ EffectRestores
              /\ (saved.present /\ ~Parses(saved.text))
                 => saved' = NoItem /\ user' = NoUser
      ]_vars

\* C25 (amended): as stated, but of the saved values that do not parse only
\* those that are not the empty string are removed; the empty string is left
\* in localStorage. Both leave user null.
C25_SavedUserUnlessEmpty ==
    [][ /\ \A employee \in LoginUsers :
            Parses(Stringify(employee)) /\ Parse(Stringify(employee)) = employee
        /\ last'.op \in {"login", "logout"} => SavedIsUser
        /\ (~effectPending /\ effectPending') => MountFindsLast
        /\ (effectPending /\ ~effectPending')
           => /\ EffectRestores
              /\ (saved.present /\ ~Parses(saved.text))
                 => /\ user' = NoUser
                    /\ saved' = IF saved.text = <<>> THEN saved ELSE NoItem
      ]_vars

\* A second provider's effect just restored the user an earlier login saved.
C25_Witness ==
    /\ last.op = "effect"
    /\ mounts >= 2
    /\ ~isLoading
    /\ user # NoUser
    /\ saved = Item(Stringify(user[1]))

\* The rows of S that are Approved, by id.
ApprovedIds(S) == {lr.id : lr \in {r \in S : r.status = "Approved"}}

\* C26: the request a create stores is never Approved, and a request becomes
\* Approved only by a setStatus that succeeds, names it, and carries a
\* Manager's id: no create, cancel or permanent delete, and no setStatus of
\* anybody else, adds an Approved request to the table.
C26_ApprovedByManager ==
    /\ \A employeeId \in ActorIds, range \in DateRanges(today), reason \in Reasons :
            /\ NewRequest(nextId, employeeId, range[1], range[2], reason).status
                    # "Approved"
            /\ ApprovedIds(AfterCreate(employeeId, range[1], range[2], reason))
                    \subseteq ApprovedIds(requests)
    /\ \A id \in RequestIds, actorId \in ActorIds, statusString \in StatusStrings :
            LET new == ApprovedIds(AfterUpdate(id, actorId, statusString))
                            \ ApprovedIds(requests)
            IN  new # {}
                => /\ new = {id}
                   /\ actorId \in ManagerIds
                   /\ UpdateResult(id, actorId, statusString) = "NoContent"
    /\ \A id \in RequestIds, actorId \in ActorIds :
            /\ ApprovedIds(AfterCancel(id, actorId)) \subseteq ApprovedIds(requests)
            /\ ApprovedIds(AfterDelete(id, actorId)) \subseteq ApprovedIds(requests)

\* A create just stored a request that is not Approved, next to a request
\* that a Manager's setStatus made Approved.
C26_Witness ==
    /\ last.op = "create"
    /\ last.result = "Created"
    /\ \E lr \in Touched : lr.status # "Approved"
    /\ \E lr \in requests : lr.status = "Approved" /\ lr.id # last.id

\* The ids of the employees whose role is Employee.
EmployeeRoleIds == KnownIds \ ManagerIds

\* The rows of S that are not e's, with their statuses.
OthersRows(S, e) == {lr \in S : lr.employeeId # e}

\* C27: no call made with the id of an employee whose role is Employee
\* (create and cancel with it as employeeId, setStatus and permanent delete
\* with it as actor) changes the status of, or removes, a request of another
\* employee.
C27_EmployeeCannotTouchOthers ==
    \A e \in EmployeeRoleIds :
        LET others == OthersRows(requests, e)
        IN  /\ \A range \in DateRanges(today), reason \in Reasons :
                    OthersRows(AfterCreate(e, range[1], range[2], reason), e) = others
            /\ \A id \in RequestIds :
                    /\ OthersRows(AfterCancel(id, e), e) = others
                    /\ OthersRows(AfterDelete(id, e), e) = others
                    /\ \A statusString \in StatusStrings :
                            OthersRows(AfterUpdate(id, e, statusString), e) = others

\* A cancel was refused as Unauthorized while the only requests stored are
\* Pending ones of an employee other than the one whose role is Employee.
C27_Witness ==
    /\ last.op = "cancel"
    /\ last.result = "Unauthorized"
    /\ requests # {}
    /\ \A lr \in requests :
            lr.status = "Pending" /\ lr.employeeId \notin EmployeeRoleIds

\* Every way of listing the rows S once each, by descending start date.
Listings(S) ==
    { list \in [1..Cardinality(S) -> S] :
        /\ \A i, j \in 1..Cardinality(S) : i # j => list[i] # list[j]
        /\ \A i, j \in 1..Cardinality(S) : i < j => list[i].startDate >= list[j].startDate }

\* C28: what listRequests returns to a caller e whose role is Employee is
\* determined by the requests e owns: it is Ok with the listings of exactly
\* those rows, so two tables that hold the same requests of e give the same
\* result whatever else they hold.
C28_ListOfOwnOnly ==
    \A e \in EmployeeRoleIds :
        LET employeeId == [hasValue |-> TRUE, value |-> e]
        IN  /\ GetResult(employeeId) = "Ok"
            /\ GetLists(employeeId) = Listings({lr \in requests : lr.employeeId = e})

\* A list call just returned no row, with Ok, from a table that holds
\* requests: all of them are another employee's.
C28_Witness ==
    /\ last.op = "list"
    /\ last.result = "Ok"
    /\ listed = <<>>
    /\ requests # {}
    /\ \A lr \in requests : lr.employeeId \notin EmployeeRoleIds

====
